---- MODULE Spec2Model ----
(***************************************************************************)
(* A model of src/main.py: the movie-trivia podcast pipeline               *)
(*   resolve_to_imdb_id -> fetch_trivia_from_wikipedia -> write_dialogue   *)
(*   -> to_vibevoice_numbered_script -> run_vibevoice_with_fallback.       *)
(*                                                                         *)
(* Text is a sequence of one-character strings, so that strip, lower,      *)
(* startswith, split and splitlines are computed as Python computes them.  *)
(***************************************************************************)
EXTENDS Integers, Sequences, FiniteSets, TLC

VARIABLES
    \* ---- to_vibevoice_numbered_script (SpecNormalize)
    npc,            \* "idle" | "input" | "done" | "redone"
    script_text,    \* the raw script handed to the normalizer
    speakers,       \* the two speaker names
    out_lines,      \* the list out_lines after the loop
    out_text,       \* the returned text: "\n".join(out_lines)
    out_text2,      \* the normalizer applied to its own output
    \* ---- _collect_relevant_sections (SpecSections)
    wpc,            \* "idle" | "input" | "done"
    page,           \* the page's section tree
    texts,          \* the returned list
    \* ---- resolve_to_imdb_id (SpecResolve)
    rpc,            \* "idle" | "input" | "done"
    r_year,         \* the year argument (None when absent)
    r_results,      \* the search results TMDb returns
    r_ext,          \* TMDb's external_ids answer per movie id
    r_out,          \* the outcome of the call
    \* ---- cli (Spec)
    pc,             \* the position of cli
    err,            \* the error that aborted the run (None when none)
    calls,          \* the external calls made so far, in order
    year,           \* cli's year
    max_trivia,     \* cli's --max-trivia
    bullets,        \* what fetch_trivia_from_wikipedia returned
    trivia,         \* bullets[:max_trivia]
    spk,            \* the two speaker labels
    script_file,    \* the content of podcast.txt (None before it is written)
    primary_model,
    fallback_model,
    \* ---- run_vibevoice_with_fallback (Spec and SpecSynth)
    sstate,         \* "Idle" | "TrySynthesisA" | "TrySynthesisB" | "Done" | "Fatal"
    outputs,        \* the directory <vibevoice_dir>/outputs: file name -> mtime, 0 = absent
    clock,          \* counts the subprocess invocations ever made; an invocation's
                    \* files carry its number as their mtime
    attempts,       \* the attempts of the current call: model, invocation number, result
    out_wav,        \* the file copied to the caller's path (None when none)
    serr,           \* the exception that left run_vibevoice_with_fallback
    runs            \* calls of run_vibevoice_with_fallback started so far

norm_vars  == <<npc, script_text, speakers, out_lines, out_text, out_text2>>
sec_vars   == <<wpc, page, texts>>
res_vars   == <<rpc, r_year, r_results, r_ext, r_out>>
cli_vars   == <<pc, err, calls, year, max_trivia, bullets, trivia, spk,
                script_file, primary_model, fallback_model>>
synth_vars == <<sstate, outputs, clock, attempts, out_wav, serr, runs>>
vars == <<norm_vars, sec_vars, res_vars, cli_vars, synth_vars>>

None == "None"

----------------------------------------------------------------------------
(* Text: Python's str operations on sequences of characters.               *)

Upper == <<"A","B","C","D","E","F","G","H","I","J","K","L","M",
           "N","O","P","Q","R","S","T","U","V","W","X","Y","Z">>
LowerLetters == <<"a","b","c","d","e","f","g","h","i","j","k","l","m",
                  "n","o","p","q","r","s","t","u","v","w","x","y","z">>

\* the whitespace str.strip() removes and \s matches, within the alphabet used
Whitespace == {" ", "\t", "\n", "\r"}

\* the line boundaries str.splitlines() splits at, within the alphabet used
LineBreaks == {"\n", "\r"}

LowerChar(c) ==
    IF \E i \in 1..26 : Upper[i] = c
    THEN LowerLetters[CHOOSE i \in 1..26 : Upper[i] = c]
    ELSE c

\* str.lower()
Lower(s) == [i \in 1..Len(s) |-> LowerChar(s[i])]

RECURSIVE LStrip(_)
LStrip(s) ==
    IF s /= <<>> /\ Head(s) \in Whitespace THEN LStrip(Tail(s)) ELSE s

RECURSIVE RStrip(_)
RStrip(s) ==
    IF s /= <<>> /\ s[Len(s)] \in Whitespace
    THEN RStrip(SubSeq(s, 1, Len(s) - 1))
    ELSE s

\* str.strip()
Strip(s) == RStrip(LStrip(s))

\* str.startswith(p)
StartsWith(s, p) == Len(s) >= Len(p) /\ SubSeq(s, 1, Len(p)) = p

\* c in s
Contains(s, c) == \E i \in 1..Len(s) : s[i] = c

\* the index of the first c in s (s contains c)
IndexOf(s, c) == CHOOSE i \in 1..Len(s) : s[i] = c /\ \A j \in 1..(i - 1) : s[j] /= c

\* s.split(c, 1) of a string that contains c: <<left, right>>
SplitOnce(s, c) ==
    <<SubSeq(s, 1, IndexOf(s, c) - 1), SubSeq(s, IndexOf(s, c) + 1, Len(s))>>

\* str.splitlines(): a line ends at "\n", "\r" or "\r\n"; a final line break
\* opens no empty last line
RECURSIVE SplitLinesFrom(_, _, _, _)
SplitLinesFrom(s, i, cur, acc) ==
    IF i > Len(s)
    THEN IF cur = <<>> THEN acc ELSE Append(acc, cur)
    ELSE IF s[i] \in LineBreaks
         THEN IF s[i] = "\r" /\ i < Len(s) /\ s[i + 1] = "\n"
              THEN SplitLinesFrom(s, i + 2, <<>>, Append(acc, cur))
              ELSE SplitLinesFrom(s, i + 1, <<>>, Append(acc, cur))
         ELSE SplitLinesFrom(s, i + 1, Append(cur, s[i]), acc)

SplitLines(s) == SplitLinesFrom(s, 1, <<>>, <<>>)

\* sep.join(parts)
RECURSIVE Join(_, _)
Join(parts, sep) ==
    IF parts = <<>> THEN <<>>
    ELSE IF Len(parts) = 1 THEN parts[1]
    ELSE parts[1] \o sep \o Join(Tail(parts), sep)

----------------------------------------------------------------------------
(* to_vibevoice_numbered_script                                            *)

SpeakerWord == <<"S","p","e","a","k","e","r"," ">>
speaker_1_prefix == <<"s","p","e","a","k","e","r"," ","1",":">>
speaker_2_prefix == <<"s","p","e","a","k","e","r"," ","2",":">>

\* f"Speaker {num}: {text}"
SpeakerLine(num, text) == SpeakerWord \o <<num, ":", " ">> \o text

\* name_to_num.get(key): the dict {speakers[0].lower(): "1", speakers[1].lower(): "2"},
\* in which the second key replaces an equal first one
name_to_num_get(spks, key) ==
    IF key = Lower(spks[2]) THEN "2"
    ELSE IF key = Lower(spks[1]) THEN "1"
    ELSE None

\* a faulty variant: the test of lines 189-191 without .lower()
AlreadyNumberedCaseSensitive(line) ==
    \/ StartsWith(line, SpeakerWord \o <<"1", ":">>)
    \/ StartsWith(line, SpeakerWord \o <<"2", ":">>)

\* the test of lines 189-191
already_numbered(line) ==
    \/ StartsWith(Lower(line), speaker_1_prefix)
    \/ StartsWith(Lower(line), speaker_2_prefix)

\* the speaker number lines 194-198 find for a line, None when they find none
matched_num(line, spks) ==
    IF Contains(line, ":")
    THEN name_to_num_get(spks, Lower(Strip(SplitOnce(line, ":")[1])))
    ELSE None

\* a faulty variant: a cycle that never leaves its first element
TurnCycleStuck(taken) == "1"

\* itertools.cycle(["1", "2"]): the value next() returns after `taken` earlier calls
turn_cycle_next(taken) == IF taken % 2 = 0 THEN "1" ELSE "2"

\* a faulty variant: a line rewritten by its speaker name consumes a cycle step too
TakenAfterMatchedAdvances(taken) == taken + 1

\* lines 198-200 append and continue without calling next(turn_cycle)
taken_after_matched(taken) == taken

\* the loop of lines 185-202 from line i on: `taken` counts the next(turn_cycle)
\* calls made so far, `out` is out_lines
RECURSIVE normalize_loop(_, _, _, _, _)
normalize_loop(raws, i, spks, taken, out) ==
    IF i > Len(raws) THEN out
    ELSE LET line == Strip(raws[i]) IN
         IF line = <<>>
         THEN normalize_loop(raws, i + 1, spks, taken, out)
         ELSE IF already_numbered(line)
         THEN normalize_loop(raws, i + 1, spks, taken, Append(out, line))
         ELSE IF matched_num(line, spks) /= None
         THEN normalize_loop(raws, i + 1, spks, taken_after_matched(taken),
                  Append(out, SpeakerLine(matched_num(line, spks),
                                          Strip(SplitOnce(line, ":")[2]))))
         ELSE normalize_loop(raws, i + 1, spks, taken + 1,
                  Append(out, SpeakerLine(turn_cycle_next(taken), line)))

\* out_lines when the loop ends
numbered_lines(text, spks) == normalize_loop(SplitLines(text), 1, spks, 0, <<>>)

to_vibevoice_numbered_script(text, spks) ==
    Join(numbered_lines(text, spks), <<"\n">>)

----------------------------------------------------------------------------
(* SpecNormalize: to_vibevoice_numbered_script on bounded raw scripts.     *)

MaxLines == 3

Al == <<"A", "l">>
Bo == <<"B", "o">>

\* speaker pairs: two distinct names, and two names equal after lower()
SpeakerPairs == { <<Al, Bo>>, <<Al, <<"A", "L">> >> }

\* raw lines a language model may return
RawLines ==
    { <<"A","l",":"," ","h","i">>,                        \* Al: hi
      <<"b","o"," ",":","y","o">>,                        \* bo :yo
      <<"A","l",":">>,                                    \* Al:
      SpeakerWord \o <<"1",":"," ","a"," ">>,             \* Speaker 1: a_
      speaker_2_prefix \o <<"b">>,                        \* speaker 2:b
      <<"h","e","y">>,                                    \* hey
      <<" ","C","y",":"," ","x",":","y">>,                \* _Cy: x:y
      <<" ">> }                                           \* a blank line

\* how a script's lines are put together
Endings == { <<>>, <<"\r", "\n">> }

RawScripts ==
    { Join(ls, <<"\n">>) \o e :
        ls \in UNION { [1..n -> RawLines] : n \in 0..MaxLines }, e \in Endings }

NormIdle ==
    /\ npc = "idle" /\ script_text = <<>> /\ speakers = <<Al, Bo>>
    /\ out_lines = <<>> /\ out_text = <<>> /\ out_text2 = <<>>

InitNormalize ==
    /\ npc = "input"
    /\ script_text \in RawScripts
    /\ speakers \in SpeakerPairs
    /\ out_lines = <<>> /\ out_text = <<>> /\ out_text2 = <<>>

\* script = to_vibevoice_numbered_script(script, spk)
Normalize ==
    /\ npc = "input"
    /\ out_lines' = numbered_lines(script_text, speakers)
    /\ out_text' = to_vibevoice_numbered_script(script_text, speakers)
    /\ npc' = "done"
    /\ UNCHANGED <<script_text, speakers, out_text2>>

\* the normalizer applied to the script it returned
Renormalize ==
    /\ npc = "done"
    /\ out_text2' = to_vibevoice_numbered_script(out_text, speakers)
    /\ npc' = "redone"
    /\ UNCHANGED <<script_text, speakers, out_lines, out_text>>

(* _collect_relevant_sections                                              *)

\* the allow-list of section titles
keep == { "Production", "Development", "Pre-production", "Casting", "Filming",
          "Post-production", "Visual effects", "Music", "Release", "Marketing",
          "Reception", "Box office", "Accolades", "Legacy" }

\* A page's section tree: sections 1..n numbered in document order, parent[i]
\* the section that holds section i (0: the page itself), title[i] its title;
\* section i's body text is identified by i.

\* sec.sections (page.sections for sec = 0): the children, in document order
sections(p, sec) ==
    SelectSeq([i \in 1..p.n |-> i], LAMBDA i : p.parent[i] = sec)

\* f"{sec.title}\n{sec.text}"
section_entry(p, sec) == [title |-> p.title[sec], text |-> sec]

\* a faulty variant: a walk that descends only into sections it keeps
RECURSIVE WalkPruned(_, _, _)
WalkPruned(p, sec, cs) ==
    IF p.title[sec] \notin keep THEN <<>>
    ELSE IF cs = <<>> THEN <<section_entry(p, sec)>>
    ELSE WalkPruned(p, sec, SubSeq(cs, 1, Len(cs) - 1))
             \o WalkPruned(p, cs[Len(cs)], sections(p, cs[Len(cs)]))

\* walk(sec): what it appends to texts, cs being the children of sec that the
\* loop of line 91 visits (all of them: cs = sec.sections)
RECURSIVE walk(_, _, _)
walk(p, sec, cs) ==
    IF cs = <<>>
    THEN IF p.title[sec] \in keep THEN <<section_entry(p, sec)>> ELSE <<>>
    ELSE walk(p, sec, SubSeq(cs, 1, Len(cs) - 1))
             \o walk(p, cs[Len(cs)], sections(p, cs[Len(cs)]))

\* for s in page.sections: walk(s)
RECURSIVE walk_all(_, _)
walk_all(p, secs) ==
    IF secs = <<>> THEN <<>>
    ELSE walk(p, Head(secs), sections(p, Head(secs))) \o walk_all(p, Tail(secs))

collect_relevant_sections(p) == walk_all(p, sections(p, 0))

----------------------------------------------------------------------------
(* SpecSections: _collect_relevant_sections on bounded section trees.      *)

MaxSections == 4

SectionTitles == { "Production", "Casting", "Plot" }

\* section a is section b or one of the sections that hold it
RECURSIVE HoldsOrIs(_, _, _)
HoldsOrIs(parent, a, b) ==
    IF b = 0 THEN a = 0
    ELSE a = b \/ HoldsOrIs(parent, a, parent[b])

\* numbering in document order: a section follows the section that holds it,
\* and a new section opens under the previous section or one that holds it
DocumentOrdered(n, parent) ==
    /\ \A i \in 1..n : parent[i] < i
    /\ \A i \in 2..n : parent[i] = 0 \/ HoldsOrIs(parent, parent[i], i - 1)

InitSections ==
    /\ wpc = "input"
    /\ \E n \in 0..MaxSections :
         \E par \in [1..n -> 0..(MaxSections - 1)], tit \in [1..n -> SectionTitles] :
            /\ DocumentOrdered(n, par)
            /\ page = [n |-> n, parent |-> par, title |-> tit]
    /\ texts = <<>>

\* chunks = _collect_relevant_sections(page)
CollectSections ==
    /\ wpc = "input"
    /\ texts' = collect_relevant_sections(page)
    /\ wpc' = "done"
    /\ UNCHANGED page

(* resolve_to_imdb_id                                                      *)

Digits == <<"0","1","2","3","4","5","6","7","8","9">>

\* str(n) of an integer
RECURSIVE IntToStr(_)
IntToStr(n) ==
    IF n < 0 THEN <<"-">> \o IntToStr(-n)
    ELSE IF n < 10 THEN <<Digits[n + 1]>>
    ELSE IntToStr(n \div 10) \o <<Digits[(n % 10) + 1]>>

\* An Optional[int] is <<>> (None) or <<n>>.
\* `if year:` holds of a year that is neither None nor 0
year_is_truthy(y) == y /= <<>> /\ y[1] /= 0

\* lines 32-35: the results left after the year filter
filter_by_year(results, y) ==
    IF year_is_truthy(y)
    THEN SelectSeq(results,
                   LAMBDA r : StartsWith(r.release_date, IntToStr(y[1])))
    ELSE results

\* `if not imdb_id`: None and the empty string are both falsy
imdb_id_missing(imdb_id) == imdb_id \in {None, ""}

\* resolve_to_imdb_id(title, year), given what TMDb answers: `results` to the
\* search, ext[mid] to Movies(mid).external_ids().get("imdb_id").
\* fetched: the movie ids whose external ids were requested, in order.
resolve_to_imdb_id(title, y, results, ext) ==
    LET left == filter_by_year(results, y) IN
    IF left = <<>>
    THEN [status |-> "NotFoundError", imdb_id |-> None, tmdb_title |-> None,
          fetched |-> <<>>]
    ELSE LET m == left[1] IN
         IF imdb_id_missing(ext[m.id])
         THEN [status |-> "NotFoundError", imdb_id |-> None, tmdb_title |-> None,
               fetched |-> <<m.id>>]
         ELSE [status |-> "ok", imdb_id |-> ext[m.id],
               tmdb_title |-> IF m.title /= "" THEN m.title ELSE title,
               fetched |-> <<m.id>>]

----------------------------------------------------------------------------
(* SpecResolve: resolve_to_imdb_id on bounded TMDb answers.                *)

MaxResults == 2

MovieIds == {1, 2}

QueryTitle == "inception"

\* the years a caller may give: none, 0, a prefix of a year, two real years
Years == { <<>>, <<0>>, <<201>>, <<1999>>, <<2010>> }

ReleaseDates ==
    { <<>>,
      <<"1","9","9","9","-","0","3","-","3","1">>,
      <<"2","0","1","0","-","0","7","-","1","6">> }

\* a search result; movie 2 carries no title of its own
SearchResults ==
    { [id |-> i, release_date |-> d, title |-> IF i = 1 THEN "Inception" ELSE ""] :
        i \in MovieIds, d \in ReleaseDates }

ImdbAnswers == { None, "", "tt1375666" }

InitResolve ==
    /\ rpc = "input"
    /\ r_year \in Years
    /\ r_results \in UNION { [1..n -> SearchResults] : n \in 0..MaxResults }
    /\ r_ext \in [MovieIds -> ImdbAnswers]
    /\ r_out = [status |-> "idle"]

\* imdb_id, resolved_title = resolve_to_imdb_id(title, year)
Resolve ==
    /\ rpc = "input"
    /\ r_out' = resolve_to_imdb_id(QueryTitle, r_year, r_results, r_ext)
    /\ rpc' = "done"
    /\ UNCHANGED <<r_year, r_results, r_ext>>

(* run_vibevoice_once and run_vibevoice_with_fallback                      *)

\* The directory <vibevoice_dir>/outputs holds the files 1..MaxWavs, numbered
\* in the order sorted() gives their paths; outputs[f] is the mtime of file
\* f, 0 when the file does not exist. A file written by the k-th subprocess
\* invocation ever made carries mtime k.
MaxWavs == 2

NoFiles == [f \in 1..MaxWavs |-> 0]

\* What one run of the external program may do: exit with a status, having
\* written any set of audio files (a failing run may leave files behind).
Outcomes == [exit : {0, 1}, writes : SUBSET (1..MaxWavs)]

\* the directory after the k-th invocation, whose outcome is o
outputs_after(dir, k, o) ==
    [f \in 1..MaxWavs |-> IF f \in o.writes THEN k ELSE dir[f]]

\* sorted(outdir_abs.glob("*.wav"))
candidates(dir) == SelectSeq([f \in 1..MaxWavs |-> f], LAMBDA f : dir[f] /= 0)

\* max(candidates, key=mtime): the first candidate of the greatest mtime
latest(dir) ==
    CHOOSE f \in 1..MaxWavs :
        /\ dir[f] /= 0
        /\ \A g \in 1..MaxWavs : dir[g] <= dir[f]
        /\ \A g \in 1..(f - 1) : dir[g] < dir[f]

\* run_vibevoice_once as the k-th invocation, on directory dir, the subprocess
\* behaving as o: the directory it leaves, how the call ends, and the file
\* copied to out_wav (<<>> when none): which file, and the invocation that
\* wrote it
run_vibevoice_once(dir, k, o) ==
    LET after == outputs_after(dir, k, o) IN
    IF o.exit /= 0
    THEN [outputs |-> after, result |-> "CalledProcessError", copied |-> <<>>]
    ELSE IF candidates(after) = <<>>
    THEN [outputs |-> after, result |-> "ClickException", copied |-> <<>>]
    ELSE [outputs |-> after, result |-> "ok",
          copied |-> <<[file |-> latest(after), written_by |-> after[latest(after)]]>>]

\* line 272: the failures of the primary attempt that the except clause catches
caught_by_fallback(result) == result = "CalledProcessError"

SUPPORTED_MODELS == <<"microsoft/VibeVoice-Large", "microsoft/VibeVoice-1.5B">>

\* lines 382-385: the fallback is the other model
fallback_of(primary) ==
    IF primary = "microsoft/VibeVoice-Large"
    THEN "microsoft/VibeVoice-1.5B"
    ELSE "microsoft/VibeVoice-Large"

\* line 469: run_vibevoice_with_fallback is entered
with_fallback_entered ==
    /\ sstate' = "TrySynthesisA"
    /\ attempts' = <<>>
    /\ serr' = None
    /\ runs' = runs + 1
    /\ UNCHANGED <<outputs, clock, out_wav>>

\* line 270: the attempt with the primary model, from the subprocess call to
\* the return or the exception
TryPrimary ==
    /\ sstate = "TrySynthesisA"
    /\ \E o \in Outcomes :
         LET r == run_vibevoice_once(outputs, clock + 1, o) IN
         /\ clock' = clock + 1
         /\ outputs' = r.outputs
         /\ attempts' = Append(attempts, [model |-> primary_model,
                                          invocation |-> clock + 1,
                                          result |-> r.result])
         /\ IF r.result = "ok"
            THEN sstate' = "Done" /\ out_wav' = r.copied /\ serr' = None
            ELSE IF caught_by_fallback(r.result)
            THEN sstate' = "TrySynthesisB" /\ UNCHANGED <<out_wav, serr>>
            ELSE sstate' = "Fatal" /\ serr' = r.result /\ UNCHANGED out_wav
    /\ UNCHANGED runs

\* line 274: the attempt with the fallback model; what it raises leaves the
\* function unhandled
TryFallback ==
    /\ sstate = "TrySynthesisB"
    /\ \E o \in Outcomes :
         LET r == run_vibevoice_once(outputs, clock + 1, o) IN
         /\ clock' = clock + 1
         /\ outputs' = r.outputs
         /\ attempts' = Append(attempts, [model |-> fallback_model,
                                          invocation |-> clock + 1,
                                          result |-> r.result])
         /\ IF r.result = "ok"
            THEN sstate' = "Done" /\ out_wav' = r.copied /\ serr' = None
            ELSE sstate' = "Fatal" /\ serr' = r.result /\ UNCHANGED out_wav
    /\ UNCHANGED runs

----------------------------------------------------------------------------
(* SpecSynth: run_vibevoice_with_fallback called again and again on one    *)
(* outputs directory, which nothing empties between the calls.             *)

MaxRuns == 2

\* a call of run_vibevoice_with_fallback with either model as the primary one
CallWithFallback ==
    /\ sstate \in {"Idle", "Done", "Fatal"}
    /\ runs < MaxRuns
    /\ \E m \in 1..2 :
         /\ primary_model' = SUPPORTED_MODELS[m]
         /\ fallback_model' = fallback_of(SUPPORTED_MODELS[m])
    /\ with_fallback_entered

(* fetch_trivia_from_wikipedia: the title candidates and the bullet parse  *)

\* _wiki_candidate_titles: the plain title, "title (year film)" when `if year:`
\* holds, "title (film)"; the three differ, so the dedupe drops none. Only
\* their number matters below.
wiki_candidate_count(y) == IF year_is_truthy(y) THEN 3 ELSE 2

\* the characters of the class [\-\*\d\.\)\s]
BulletMarkers ==
    {"-", "*", ".", ")"} \cup Whitespace \cup {Digits[i] : i \in 1..10}

\* re.sub(r"^[\-\*\d\.\)\s]+", "", line)
RECURSIVE strip_markers(_)
strip_markers(line) ==
    IF line /= <<>> /\ Head(line) \in BulletMarkers
    THEN strip_markers(Tail(line))
    ELSE line

\* re.sub(r"\s+", " ", t)
RECURSIVE collapse_whitespace(_)
collapse_whitespace(t) ==
    IF t = <<>> THEN <<>>
    ELSE IF Head(t) \in Whitespace
         THEN <<" ">> \o collapse_whitespace(LStrip(t))
         ELSE <<Head(t)>> \o collapse_whitespace(Tail(t))

ShortenWidth == 320

\* the three characters of the placeholder of line 137
Placeholder == <<"p1", "p2", "p3">>

\* textwrap.shorten(t, width=320, placeholder=...) of a text that is already
\* collapsed and trimmed: the text itself when it fits the width; otherwise
\* the longest run of whole words that leaves room for the placeholder, then
\* the placeholder (alone when not even the first word leaves room)
shorten(t) ==
    IF Len(t) <= ShortenWidth THEN t
    ELSE LET ends == { k \in 1..(ShortenWidth - Len(Placeholder)) :
                         t[k] /= " " /\ t[k + 1] = " " }
         IN IF ends = {} THEN Placeholder
            ELSE SubSeq(t, 1, CHOOSE k \in ends : \A j \in ends : j <= k)
                     \o Placeholder

\* lines 131-138: the bullets parsed from the model's answer
RECURSIVE parse_bullets(_)
parse_bullets(raw) ==
    IF raw = <<>> THEN <<>>
    ELSE LET t == collapse_whitespace(Strip(strip_markers(Head(raw)))) IN
         (IF t /= <<>> THEN <<shorten(t)>> ELSE <<>>) \o parse_bullets(Tail(raw))

\* resp.choices[0].message.content.strip().splitlines(), then the parse
bullets_of_answer(content) == parse_bullets(SplitLines(Strip(content)))

----------------------------------------------------------------------------
(* cli                                                                     *)

Min(a, b) == IF a <= b THEN a ELSE b
Max(a, b) == IF a >= b THEN a ELSE b

\* a faulty variant: a slice that keeps one element more
SliceOneMore(seq, k) ==
    IF k >= 0 THEN SubSeq(seq, 1, Min(k + 1, Len(seq)))
    ELSE SubSeq(seq, 1, Max(Len(seq) + k + 1, 0))

\* seq[:k] as Python slices: a negative k counts from the end
py_slice_to(seq, k) ==
    IF k >= 0 THEN SubSeq(seq, 1, Min(k, Len(seq)))
    ELSE SubSeq(seq, 1, Max(Len(seq) + k, 0))

\* s.split(c): the parts between the occurrences of c
RECURSIVE SplitAll(_, _)
SplitAll(s, c) ==
    IF Contains(s, c)
    THEN <<SplitOnce(s, c)[1]>> \o SplitAll(SplitOnce(s, c)[2], c)
    ELSE <<s>>

\* line 419: [s.strip() for s in speakers.split(",") if s.strip()]
RECURSIVE stripped_nonempty(_)
stripped_nonempty(parts) ==
    IF parts = <<>> THEN <<>>
    ELSE (IF Strip(Head(parts)) /= <<>> THEN <<Strip(Head(parts))>> ELSE <<>>)
             \o stripped_nonempty(Tail(parts))

\* voice_to_speaker_label: en-Alice_woman -> Alice; a name without "-" makes
\* the unpacking fail and is returned as it is
voice_to_speaker_label(v) ==
    IF Contains(v, "-")
    THEN LET tail == SplitOnce(v, "-")[2] IN
         IF Contains(tail, "_") THEN SplitOnce(tail, "_")[1] ELSE tail
    ELSE v

Alice == <<"A","l","i","c","e">>
Frank == <<"F","r","a","n","k">>

\* a faulty variant: a failed resolution that does not stop the run
ContinuesAfterResolve(status) == "collect"

\* line 406: an exception of resolve_to_imdb_id leaves cli; otherwise cli goes on
after_resolve(status) == IF status = "ok" THEN "collect" ELSE "aborted"

\* lines 411-412
after_collect(bs) == IF bs = <<>> THEN "aborted" ELSE "speakers"

\* ---- the inputs of one run, bounded
MaxTriviaArg == 3
MaxAnswerLines == 2

\* the years given to cli (none, or one)
CliYears == { <<>>, <<2010>> }

\* what TMDb may answer in a run of cli
CliSearchAnswers ==
    UNION { [1..n -> { r \in SearchResults : r.id = 1 }] : n \in 0..1 }

\* the lines a language model may answer the extraction prompt with
AnswerLines == { <<"-"," ","a"," "," ","b">>, <<"2",")"," ","c">>, <<"-">> }

ExtractionAnswers ==
    { Join(ls, <<"\n">>) :
        ls \in UNION { [1..n -> AnswerLines] : n \in 0..MaxAnswerLines } }

\* the --speakers option: none, two names, a blank part between two names,
\* one name
SpeakersOptions ==
    { <<>>,
      <<"A","l",",","B","o">>,
      <<"A","l",","," ",",","B","o">>,
      <<"A","l">> }

\* the voice files list_available_voices may find
VoiceLists ==
    { <<>>,
      << <<"e","n","-","A","l","_","m","a","n">>, <<"z","h","-","B","o","_","w">> >> }

\* the dialogues a language model may write
Dialogues ==
    { <<"A","l",":"," ","h","i","\n","B","o",":"," ","y","o">>,
      <<"h","e","y","\n","\n","A","l",":"," ","h","i">> }

Call(api) == [api |-> api, bullets |-> <<>>]

\* n calls of the same api
RECURSIVE Repeat(_, _)
Repeat(c, n) == IF n = 0 THEN <<>> ELSE <<c>> \o Repeat(c, n - 1)

Abort(e) == pc' = "aborted" /\ err' = e

\* lines 363-402: the keys, the model choice, the VibeVoice directory, the
\* title and the year
CliStart ==
    /\ pc = "start"
    /\ \E configured \in BOOLEAN, choice \in 0..3, y \in CliYears,
          n \in (0 - 2)..MaxTriviaArg :
         /\ max_trivia' = n
         /\ IF ~configured
            THEN /\ Abort("ConfigurationError")
                 /\ UNCHANGED <<year, primary_model, fallback_model>>
            ELSE IF choice < 1 \/ choice > Len(SUPPORTED_MODELS)
            THEN /\ Abort("InvalidInputError")
                 /\ UNCHANGED <<year, primary_model, fallback_model>>
            ELSE /\ primary_model' = SUPPORTED_MODELS[choice]
                 /\ fallback_model' = fallback_of(SUPPORTED_MODELS[choice])
                 /\ year' = y
                 /\ pc' = "resolve" /\ err' = None
    /\ UNCHANGED <<calls, bullets, trivia, spk, script_file, synth_vars>>

\* lines 405-407: resolve_to_imdb_id
CliResolve ==
    /\ pc = "resolve"
    /\ \E results \in CliSearchAnswers, ext \in [MovieIds -> ImdbAnswers] :
         LET r == resolve_to_imdb_id(QueryTitle, year, results, ext) IN
         /\ calls' = calls \o <<Call("tmdb.search")>>
                        \o Repeat(Call("tmdb.external_ids"), Len(r.fetched))
         /\ pc' = after_resolve(r.status)
         /\ err' = IF r.status = "ok" THEN None ELSE r.status
    /\ UNCHANGED <<year, max_trivia, bullets, trivia, spk, script_file,
                   primary_model, fallback_model, synth_vars>>

\* lines 409-415: fetch_trivia_from_wikipedia, the test for no bullets and
\* the truncation. `found` is the candidate title whose page exists (0: none).
CliCollect ==
    /\ pc = "collect"
    /\ \E found \in 0..wiki_candidate_count(year), answer \in ExtractionAnswers :
         IF found = 0
         THEN /\ calls' = calls \o Repeat(Call("wiki.page"), wiki_candidate_count(year))
              /\ Abort("SourceNotFoundError")
              /\ UNCHANGED <<bullets, trivia>>
         ELSE /\ calls' = calls \o Repeat(Call("wiki.page"), found)
                            \o <<Call("openai.extract")>>
              /\ bullets' = bullets_of_answer(answer)
              /\ pc' = after_collect(bullets_of_answer(answer))
              /\ IF after_collect(bullets_of_answer(answer)) = "aborted"
                 THEN err' = "NoTriviaFoundError" /\ UNCHANGED trivia
                 ELSE err' = None
                      /\ trivia' = py_slice_to(bullets_of_answer(answer), max_trivia)
    /\ UNCHANGED <<year, max_trivia, spk, script_file, primary_model,
                   fallback_model, synth_vars>>

\* lines 417-455: the two speakers, from --speakers or from the voice files
CliSpeakers ==
    /\ pc = "speakers"
    /\ \E option \in SpeakersOptions, available \in VoiceLists, i1, i2 \in 0..3 :
         IF option /= <<>>
         THEN LET names == stripped_nonempty(SplitAll(option, ",")) IN
              IF Len(names) /= 2
              THEN Abort("InvalidInputError") /\ UNCHANGED spk
              ELSE spk' = names /\ pc' = "write" /\ err' = None
         ELSE IF available = <<>>
         THEN spk' = <<Alice, Frank>> /\ pc' = "write" /\ err' = None
         ELSE IF i1 < 1 \/ i1 > Len(available) \/ i2 < 1 \/ i2 > Len(available)
                 \/ i1 = i2
         THEN Abort("InvalidInputError") /\ UNCHANGED spk
         ELSE /\ spk' = <<voice_to_speaker_label(available[i1]),
                          voice_to_speaker_label(available[i2])>>
              /\ pc' = "write" /\ err' = None
    /\ UNCHANGED <<calls, year, max_trivia, bullets, trivia, script_file,
                   primary_model, fallback_model, synth_vars>>

\* lines 457-465: write_dialogue, to_vibevoice_numbered_script, podcast.txt
CliWrite ==
    /\ pc = "write"
    /\ \E dialogue \in Dialogues :
         /\ calls' = calls \o <<[api |-> "openai.dialogue", bullets |-> trivia],
                                 Call("file.write")>>
         /\ script_file' = <<to_vibevoice_numbered_script(Strip(dialogue), spk)>>
    /\ pc' = "synthesize"
    /\ UNCHANGED <<err, year, max_trivia, bullets, trivia, spk,
                   primary_model, fallback_model, synth_vars>>

\* line 469: cli calls run_vibevoice_with_fallback
CliSynthesize ==
    /\ pc = "synthesize"
    /\ sstate = "Idle"
    /\ with_fallback_entered
    /\ pc' = "synthesizing"
    /\ UNCHANGED <<err, calls, year, max_trivia, bullets, trivia, spk,
                   script_file, primary_model, fallback_model>>

\* lines 469-472: run_vibevoice_with_fallback returns, or its exception
\* leaves cli
CliEnd ==
    /\ pc = "synthesizing"
    /\ sstate \in {"Done", "Fatal"}
    /\ IF sstate = "Done"
       THEN pc' = "done" /\ err' = None
       ELSE Abort("ExternalToolError")
    /\ UNCHANGED <<calls, year, max_trivia, bullets, trivia, spk, script_file,
                   primary_model, fallback_model, synth_vars>>

(* The other parts of the program at rest.                                 *)
NoYear == <<>>
EmptyPage == [n |-> 0, parent |-> <<>>, title |-> <<>>]

SecIdle == wpc = "idle" /\ page = EmptyPage /\ texts = <<>>

ResIdle ==
    /\ rpc = "idle" /\ r_year = NoYear /\ r_results = <<>>
    /\ r_ext = <<>> /\ r_out = [status |-> "idle"]

cli_locals == <<pc, err, calls, year, max_trivia, bullets, trivia, spk, script_file>>

CliLocalsIdle ==
    /\ pc = "idle" /\ err = None /\ calls = <<>> /\ year = NoYear
    /\ max_trivia = 0 /\ bullets = <<>> /\ trivia = <<>> /\ spk = <<>>
    /\ script_file = <<>>

CliIdle == CliLocalsIdle /\ primary_model = None /\ fallback_model = None

SynthIdle ==
    /\ sstate = "Idle" /\ outputs = NoFiles /\ clock = 0 /\ attempts = <<>>
    /\ out_wav = <<>> /\ serr = None /\ runs = 0

InitNorm == InitNormalize /\ SecIdle /\ ResIdle /\ CliIdle /\ SynthIdle

NextNorm ==
    \/ Normalize /\ UNCHANGED <<sec_vars, res_vars, cli_vars, synth_vars>>
    \/ Renormalize /\ UNCHANGED <<sec_vars, res_vars, cli_vars, synth_vars>>

SpecNormalize == InitNorm /\ [][NextNorm]_vars

InitSec == InitSections /\ NormIdle /\ ResIdle /\ CliIdle /\ SynthIdle

NextSec == CollectSections /\ UNCHANGED <<norm_vars, res_vars, cli_vars, synth_vars>>

SpecSections == InitSec /\ [][NextSec]_vars

InitRes == InitResolve /\ NormIdle /\ SecIdle /\ CliIdle /\ SynthIdle

NextRes == Resolve /\ UNCHANGED <<norm_vars, sec_vars, cli_vars, synth_vars>>

SpecResolve == InitRes /\ [][NextRes]_vars

InitCli ==
    /\ pc = "start" /\ err = None /\ calls = <<>> /\ year = NoYear
    /\ max_trivia = 0 /\ bullets = <<>> /\ trivia = <<>> /\ spk = <<>>
    /\ script_file = <<>> /\ primary_model = None /\ fallback_model = None

Init == InitCli /\ SynthIdle /\ NormIdle /\ SecIdle /\ ResIdle

Next ==
    \/ CliStart /\ UNCHANGED <<norm_vars, sec_vars, res_vars>>
    \/ CliResolve /\ UNCHANGED <<norm_vars, sec_vars, res_vars>>
    \/ CliCollect /\ UNCHANGED <<norm_vars, sec_vars, res_vars>>
    \/ CliSpeakers /\ UNCHANGED <<norm_vars, sec_vars, res_vars>>
    \/ CliWrite /\ UNCHANGED <<norm_vars, sec_vars, res_vars>>
    \/ CliSynthesize /\ UNCHANGED <<norm_vars, sec_vars, res_vars>>
    \/ TryPrimary /\ UNCHANGED <<norm_vars, sec_vars, res_vars, cli_vars>>
    \/ TryFallback /\ UNCHANGED <<norm_vars, sec_vars, res_vars, cli_vars>>
    \/ CliEnd /\ UNCHANGED <<norm_vars, sec_vars, res_vars>>

Spec == Init /\ [][Next]_vars

\* the pipeline stage an external call belongs to; the synthesis subprocess,
\* stage 5, is counted by clock
StageOf(api) ==
    CASE api \in {"tmdb.search", "tmdb.external_ids"} -> 1
      [] api \in {"wiki.page", "openai.extract"} -> 2
      [] api = "openai.dialogue" -> 3
      [] api = "file.write" -> 4

Called(api) == \E i \in 1..Len(calls) : calls[i].api = api

\* C3: the external calls of a run follow the stage order Resolver, Collector,
\* Writer, Normalizer output, Synthesizer; an error ends the run; after a
\* failed title resolution (NotFoundError) there is no encyclopedia call, no
\* language-model call, no script file and no synthesis subprocess.
C3_LinearPipeline ==
    /\ \A i, j \in 1..Len(calls) :
          i < j => StageOf(calls[i].api) <= StageOf(calls[j].api)
    /\ (clock > 0 \/ sstate /= "Idle") =>
          calls /= <<>> /\ calls[Len(calls)].api = "file.write"
    /\ script_file /= <<>> <=> Called("file.write")
    /\ err /= None => pc = "aborted"
    /\ (pc = "aborted" /\ calls /= <<>> /\ StageOf(calls[Len(calls)].api) = 1) =>
          err = "NotFoundError"
    /\ err = "NotFoundError" =>
          /\ ~Called("wiki.page") /\ ~Called("openai.extract")
          /\ ~Called("openai.dialogue") /\ ~Called("file.write")
          /\ script_file = <<>>
          /\ clock = 0 /\ sstate = "Idle"

\* C3's case: the search left no result and the run stopped there
C3_Witness ==
    /\ pc = "aborted" /\ err = "NotFoundError"
    /\ calls = <<Call("tmdb.search")>>

\* C8: with no bullet collected the run aborts with NoTriviaFoundError and the
\* Dialogue Writer is never invoked; otherwise, for a maximum count N >= 0 and
\* n bullets, the writer receives the first min(N, n) bullets in their order.
C8_WriterGetsFirstBullets ==
    /\ (Called("openai.extract") /\ bullets = <<>>) =>
          /\ pc = "aborted" /\ err = "NoTriviaFoundError"
          /\ ~Called("openai.dialogue")
    /\ \A i \in 1..Len(calls) :
          calls[i].api = "openai.dialogue" =>
            /\ bullets /= <<>>
            /\ max_trivia >= 0 =>
                  /\ Len(calls[i].bullets) = Min(max_trivia, Len(bullets))
                  /\ \A k \in 1..Len(calls[i].bullets) :
                        calls[i].bullets[k] = bullets[k]

\* C8's case: two bullets collected, a maximum of one, one bullet handed on
C8_Witness ==
    /\ Len(bullets) = 2 /\ max_trivia = 1
    /\ \E i \in 1..Len(calls) :
          calls[i].api = "openai.dialogue" /\ calls[i].bullets = <<bullets[1]>>

InitSynth == SynthIdle /\ CliIdle /\ NormIdle /\ SecIdle /\ ResIdle

NextSynth ==
    \/ CallWithFallback /\ UNCHANGED <<norm_vars, sec_vars, res_vars, cli_locals>>
    \/ TryPrimary /\ UNCHANGED <<norm_vars, sec_vars, res_vars, cli_vars>>
    \/ TryFallback /\ UNCHANGED <<norm_vars, sec_vars, res_vars, cli_vars>>

SpecSynth == InitSynth /\ [][NextSynth]_vars

\* C1: the primary model is attempted first; after a successful primary
\* attempt there is no fallback invocation; after a failed one there is exactly
\* one attempt with the fallback model; a failing fallback is the error the
\* caller sees; there are at most two invocations per call.
C1_StateMachineAsStated ==
    /\ sstate \in {"Idle", "TrySynthesisA", "TrySynthesisB", "Done", "Fatal"}
    /\ Len(attempts) <= 2
    /\ attempts /= <<>> => attempts[1].model = primary_model
    /\ (attempts /= <<>> /\ attempts[1].result = "ok") =>
          sstate = "Done" /\ Len(attempts) = 1
    /\ (sstate \in {"Done", "Fatal"} /\ attempts[1].result /= "ok") =>
          /\ Len(attempts) = 2
          /\ attempts[2].model = fallback_model
          /\ attempts[2].model /= attempts[1].model
          /\ sstate = "Fatal" <=> attempts[2].result /= "ok"
          /\ sstate = "Fatal" => serr = attempts[2].result

\* C2: a primary attempt that fails, by a non-zero exit or by leaving no audio
\* file, is followed by the fallback attempt and never directly by Fatal.
C2_EitherFailureFallsBack ==
    [][(sstate = "TrySynthesisA" /\ sstate' /= "TrySynthesisA"
            /\ attempts'[1].result /= "ok")
          => sstate' = "TrySynthesisB"]_vars

\* C10: the file a successful attempt copied to the caller's path was written
\* by that attempt's own subprocess invocation.
C10_CopiedFileIsOwn ==
    (sstate = "Done" /\ attempts /= <<>>) =>
        /\ out_wav /= <<>>
        /\ out_wav[1].written_by = attempts[Len(attempts)].invocation

\* the results whose release date starts with the year given (all, without one)
Considered(results, y) ==
    IF y = NoYear THEN results
    ELSE SelectSeq(results, LAMBDA r : StartsWith(r.release_date, IntToStr(y[1])))

\* C7: with a year given only the results whose release date starts with that
\* year are considered; the first of them is chosen and is the only one whose
\* external ids are fetched; the call fails with NotFoundError when none is
\* left or the chosen one has no IMDb id; a returned id is never empty.
C7_ResolveAsStated ==
    rpc = "done" =>
        LET left == Considered(r_results, r_year) IN
        /\ left = <<>> =>
              r_out.status = "NotFoundError" /\ r_out.fetched = <<>>
        /\ left /= <<>> =>
              /\ r_out.fetched = <<left[1].id>>
              /\ r_out.status = "NotFoundError" <=> r_ext[left[1].id] \in {None, ""}
              /\ r_out.status = "ok" => r_out.imdb_id = r_ext[left[1].id]
        /\ r_out.status = "ok" => r_out.imdb_id \notin {None, ""}

\* how deep a section lies: 1 for a section of the page itself
RECURSIVE Depth(_, _)
Depth(p, sec) == IF sec = 0 THEN 0 ELSE 1 + Depth(p, p.parent[sec])

\* C9: the result has one entry for every section whose title is in the
\* allow-list, at any depth, in document order, and nothing else.
C9_AllAllowedSectionsInOrder ==
    wpc = "done" =>
        texts = SelectSeq([i \in 1..page.n |-> [title |-> page.title[i], text |-> i]],
                          LAMBDA e : e.title \in keep)

\* C9's case: an allow-listed section at depth 3 under a section outside the
\* list is collected, after an allow-listed section at depth 1
C9_Witness ==
    /\ wpc = "done"
    /\ \E i, j \in 1..page.n :
          /\ i < j
          /\ Depth(page, i) = 1 /\ page.title[i] \in keep
          /\ Depth(page, j) = 3 /\ page.title[j] \in keep
          /\ page.title[page.parent[j]] \notin keep
          /\ \E a, b \in 1..Len(texts) : a < b /\ texts[a].text = i /\ texts[b].text = j

----------------------------------------------------------------------------
(* Claims about the normalizer, in the claims' own terms.                  *)

\* the non-blank lines of a text, stripped, in order
NonBlankLines(text) ==
    LET ls == SplitLines(text) IN
    SelectSeq([i \in 1..Len(ls) |-> Strip(ls[i])], LAMBDA l : l /= <<>>)

\* the line starts with "Speaker 1:" or "Speaker 2:", in any case
CanonicalPrefixed(line) ==
    \E d \in {"1", "2"} :
        /\ Len(line) >= 10
        /\ Lower(SubSeq(line, 1, 8)) = Lower(SpeakerWord)
        /\ line[9] = d /\ line[10] = ":"

\* the text left of the first colon, trimmed and lower-cased, is a speaker name
NameLabelled(line, spks) ==
    /\ Contains(line, ":")
    /\ \E k \in 1..2 : Lower(Strip(SplitOnce(line, ":")[1])) = Lower(spks[k])

\* a line of the fallback branch: no colon, or a label that is neither speaker
\* name, and no canonical prefix
ReachesFallback(line, spks) ==
    /\ ~CanonicalPrefixed(line)
    /\ ~NameLabelled(line, spks)

\* how many fallback lines there are among the first i lines
FallbackRank(lines, i, spks) ==
    Cardinality({j \in 1..i : ReachesFallback(lines[j], spks)})

\* C4: the k-th line of the fallback branch is numbered 1 when k is odd and 2
\* when k is even, whatever matched or already-canonical lines stand between
\* the fallback lines; every non-blank line yields exactly one output line.
C4_FallbackLinesAlternate ==
    npc \in {"done", "redone"} =>
        LET lines == NonBlankLines(script_text) IN
        /\ Len(out_lines) = Len(lines)
        /\ \A i \in 1..Len(lines) :
              ReachesFallback(lines[i], speakers) =>
                out_lines[i] =
                    SpeakerLine(IF FallbackRank(lines, i, speakers) % 2 = 1
                                THEN "1" ELSE "2",
                                lines[i])

\* C4's case: a fallback line, then a matched or canonical line, then the
\* second fallback line, which is numbered 2
C4_Witness ==
    /\ npc = "done"
    /\ LET lines == NonBlankLines(script_text) IN
       /\ Len(lines) = 3
       /\ ReachesFallback(lines[1], speakers)
       /\ ~ReachesFallback(lines[2], speakers)
       /\ ReachesFallback(lines[3], speakers)
       /\ out_lines[1][9] = "1" /\ out_lines[3][9] = "2"

\* every line of the text starts with the canonical prefix
AllLinesCanonical(text) ==
    LET ls == SplitLines(text) IN
    \A i \in 1..Len(ls) : CanonicalPrefixed(ls[i])

\* C5 as stated: a script whose lines all start with "Speaker 1:" or
\* "Speaker 2:" is returned unchanged, and normalizing twice equals normalizing
\* once, for every raw script.
C5_IdempotentAsStated ==
    npc = "redone" =>
        /\ (AllLinesCanonical(script_text) => out_text = script_text)
        /\ out_text2 = out_text

\* the text is its lines, none blank and none with whitespace at either end,
\* joined by single "\n" with no line break at the end
PlainlyJoined(text) ==
    LET ls == SplitLines(text) IN
    /\ text = Join(ls, <<"\n">>)
    /\ \A i \in 1..Len(ls) : ls[i] /= <<>> /\ Strip(ls[i]) = ls[i]

\* a line labelled with a speaker name and nothing after the colon
EmptyNamedLine(line, spks) ==
    /\ ~CanonicalPrefixed(line)
    /\ NameLabelled(line, spks)
    /\ Strip(SplitOnce(line, ":")[2]) = <<>>

\* C5 amended: a canonical script is returned unchanged when its lines carry
\* no surrounding whitespace and are joined by single newlines; normalizing
\* twice equals normalizing once when no name-labelled line of the raw script
\* has an empty remainder.
C5_IdempotentOnPlainScripts ==
    npc = "redone" =>
        /\ (AllLinesCanonical(script_text) /\ PlainlyJoined(script_text)
              => out_text = script_text)
        /\ LET lines == NonBlankLines(script_text) IN
           (\A i \in 1..Len(lines) : ~EmptyNamedLine(lines[i], speakers))
              => out_text2 = out_text

\* C5's case: a canonical two-line script came back unchanged, twice
C5_Witness ==
    /\ npc = "redone"
    /\ Len(SplitLines(script_text)) = 2
    /\ AllLinesCanonical(script_text) /\ PlainlyJoined(script_text)
    /\ out_text = script_text /\ out_text2 = script_text

\* the speaker slot an output line carries
Slot(line) == line[9]

Alternates(lines) ==
    \A i \in 1..(Len(lines) - 1) : Slot(lines[i]) /= Slot(lines[i + 1])

\* C6 as stated: no two consecutive output lines carry the same speaker slot,
\* for every raw script and every pair of names.
C6_AlternatesAsStated ==
    npc \in {"done", "redone"} => Alternates(out_lines)

\* the raw lines are all labelled with the two distinct names, in alternation
NamedInAlternation(lines, spks) ==
    /\ Lower(spks[1]) /= Lower(spks[2])
    /\ \A i \in 1..Len(lines) :
          ~CanonicalPrefixed(lines[i]) /\ NameLabelled(lines[i], spks)
    /\ \A i \in 1..(Len(lines) - 1) :
          Lower(Strip(SplitOnce(lines[i], ":")[1]))
              /= Lower(Strip(SplitOnce(lines[i + 1], ":")[1]))

\* C6 amended: every output line carries one of the two slots; consecutive
\* output lines carry different slots when the raw lines are all labelled with
\* the two distinct speaker names in alternation, or all reach the fallback
\* branch. A raw script that repeats a speaker is not repaired.
C6_AlternationPreserved ==
    npc \in {"done", "redone"} =>
        LET lines == NonBlankLines(script_text) IN
        /\ \A i \in 1..Len(out_lines) : CanonicalPrefixed(out_lines[i])
        /\ (\/ NamedInAlternation(lines, speakers)
            \/ \A i \in 1..Len(lines) : ReachesFallback(lines[i], speakers))
              => Alternates(out_lines)

\* C6's case: three fallback lines, numbered 1, 2, 1
C6_Witness ==
    /\ npc = "done"
    /\ Len(out_lines) = 3
    /\ LET lines == NonBlankLines(script_text) IN
       \A i \in 1..3 : ReachesFallback(lines[i], speakers)
    /\ Alternates(out_lines)

====
